---------------------------- MODULE Spec2Model ----------------------------
(***************************************************************************)
(* Trading journal: the TradeHistory page (filtering, sorting, the sort    *)
(* toggle, the result checkboxes), the Analytics page and the Dashboard    *)
(* (aggregates), the TradeJournal form (risk:reward, onSubmit) and the     *)
(* Settings page (risk percentage, saveSettings).                          *)
(*                                                                         *)
(* Representation of JavaScript values:                                    *)
(*   - a string is a sequence of one-character strings, '' is << >>;       *)
(*   - a nullable value is << >> (null) or <<v>> (the value v);            *)
(*   - an ISO timestamp 'YYYY-MM-DDTHH:..Z' is [month, day, hour] with     *)
(*     month counted from an epoch, a date-input value 'YYYY-MM-DD' is     *)
(*     [month, day];                                                       *)
(*   - a number that the code divides is kept as an exact fraction.        *)
(* Each specification models one mounted page; the variables of the other  *)
(* pages keep their initial values.                                        *)
(***************************************************************************)
EXTENDS Integers, Sequences, FiniteSets, TLC

VARIABLES
    trades,         \* useState<Trade[]>([])           (the page's trade list)
    loading,        \* useState(true)
    searchTerm,     \* useState('')
    showFilters,    \* useState(false)
    selectedTrade,  \* useState<Trade | null>(null)
    sortConfig,     \* useState<{key, direction} | null>(null)
    filters,        \* useState({pair, timeframe, type, dateFrom, dateTo, profitOnly, lossOnly})
    timeRange,      \* Analytics: useState('all')
    now,            \* the clock read by new Date() in Analytics
    form,           \* TradeJournal: the field values held by useForm
    previewImage,   \* TradeJournal: useState(null), here whether it is set
    isSubmitting,   \* TradeJournal: useState(false)
    submission,     \* TradeJournal: the await onSubmit is suspended at, or null
    inserted,       \* the row of the last insert the trades table accepted, or null
    reported,       \* TradeJournal: what the latest onSubmit run reported, '' until it does
    settings,       \* Settings: useState({riskPercentage: 2})
    settingsLoading,\* Settings: useState(false), after the mount effect
    saving,         \* Settings: the await saveSettings is suspended at, or null
    settingsRows,   \* the rows of the settings table
    rendered        \* the arrays a render of a page leaves behind: filtered, sorted

vars == <<trades, loading, searchTerm, showFilters, selectedTrade, sortConfig,
          filters, timeRange, now, form, previewImage, isSubmitting,
          submission, inserted, reported, settings, settingsLoading, saving,
          settingsRows, rendered>>

journalVars ==
    <<form, previewImage, isSubmitting, submission, inserted, reported>>

settingsVars == <<settings, settingsLoading, saving, settingsRows>>

(***************************************************************************)
(* Bounds of the model.                                                    *)
(***************************************************************************)
MaxTrades == 3

\* the longest list the Analytics page loads
MaxAggregateTrades == 5

(***************************************************************************)
(* JavaScript values.                                                      *)
(***************************************************************************)
Null == << >>

Some(v) == <<v>>

\* (x || 0) for a nullable number x
OrZero(x) == IF x = Null THEN 0 ELSE x[1]

UpperCase == <<"A","B","C","D","E","F","G","H","I","J","K","L","M",
               "N","O","P","Q","R","S","T","U","V","W","X","Y","Z">>

LowerCase == <<"a","b","c","d","e","f","g","h","i","j","k","l","m",
               "n","o","p","q","r","s","t","u","v","w","x","y","z">>

IsIn(seq, c) == \E i \in 1..Len(seq) : seq[i] = c

IndexOf(seq, c) == CHOOSE i \in 1..Len(seq) : seq[i] = c

\* String.prototype.toLowerCase
toLowerCase(s) ==
    [i \in 1..Len(s) |->
        IF IsIn(UpperCase, s[i]) THEN LowerCase[IndexOf(UpperCase, s[i])] ELSE s[i]]

\* String.prototype.includes
includes(s, t) ==
    \E k \in 0..(Len(s) - Len(t)) : \A i \in 1..Len(t) : s[k + i] = t[i]

\* UTF-16 code unit of a character of the alphabet in use
charCode(c) ==
    IF IsIn(UpperCase, c) THEN 64 + IndexOf(UpperCase, c)
    ELSE IF IsIn(LowerCase, c) THEN 96 + IndexOf(LowerCase, c)
    ELSE IF c = "/" THEN 47
    ELSE 32

\* s < t on strings: lexicographic on code units
RECURSIVE StringLess(_, _)
StringLess(s, t) ==
    IF t = << >> THEN FALSE
    ELSE IF s = << >> THEN TRUE
    ELSE IF charCode(Head(s)) # charCode(Head(t))
         THEN charCode(Head(s)) < charCode(Head(t))
         ELSE StringLess(Tail(s), Tail(t))

\* new Date(x).getTime() for an ISO timestamp or a date-only string (UTC
\* midnight); an order embedding of the calendar (31 day slots per month)
getTime(d) ==
    (d.month * 31 + d.day) * 24 + (IF "hour" \in DOMAIN d THEN d.hour ELSE 0)

\* s < t on two ISO timestamps of the same layout (string comparison)
IsoLess(s, t) ==
    \/ s.month < t.month
    \/ s.month = t.month /\ s.day < t.day
    \/ s.month = t.month /\ s.day = t.day /\ s.hour < t.hour

(***************************************************************************)
(* Trade rows as the store supplies them (optional columns hold null).     *)
(***************************************************************************)
EURUSD == <<"E","U","R","/","U","S","D">>

XAUUSD == <<"X","A","U","/","U","S","D">>

Buy == <<"B","u","y">>

Sell == <<"S","e","l","l">>

Trade(id, pair, timeframe, type, entry_date, entry_price, exit_price, profit_loss, risk_reward_ratio, notes) ==
    [id |-> id, pair |-> pair, timeframe |-> timeframe, type |-> type,
     entry_date |-> entry_date, entry_price |-> entry_price,
     exit_price |-> exit_price, profit_loss |-> profit_loss,
     risk_reward_ratio |-> risk_reward_ratio, notes |-> notes]

At(month, day, hour) == [month |-> month, day |-> day, hour |-> hour]

OnDay(month, day) == [month |-> month, day |-> day]

\* Rows for the filter: every criterion has rows on both sides of it.
\* Prices are in pips, profit_loss in cents, risk_reward_ratio in hundredths.
FilterRows ==
    { Trade(1, EURUSD, "H1", Sell, At(5, 15, 0), 10850, Some(10820),
            Some(3000), 150, Null),
      Trade(2, XAUUSD, "H4", Buy, At(5, 15, 9), 19505, Some(19802),
            Some(-7000), 285, Some(<<"E","u","r","o"," ","u","p">>)),
      Trade(3, XAUUSD, "H4", Sell, At(5, 10, 10), 19700, Null,
            Null, 200, Null),
      Trade(4, EURUSD, "H4", Buy, At(5, 18, 8), 10880, Some(10880),
            Some(0), 90, Some(<<"g","o","l","d">>)),
      Trade(5, XAUUSD, "H1", Buy, At(5, 22, 0), 19457, Some(19650),
            Some(24750), 300, Some(<<"g","o","l","d">>)) }

\* Rows for the sort: open trades (exit_price and profit_loss null) and
\* rows with equal values on every sort key.
SortRows ==
    { Trade(1, EURUSD, "H1", Sell, At(5, 15, 9), 10850, Some(10820),
            Some(3000), 150, Null),
      Trade(2, XAUUSD, "H4", Buy, At(5, 10, 10), 19505, Null,
            Null, 285, Null),
      Trade(3, EURUSD, "H4", Buy, At(5, 15, 9), 10850, Null,
            Null, 150, Null),
      Trade(4, XAUUSD, "H1", Sell, At(5, 22, 11), 19700, Some(19505),
            Some(-7000), 200, Null),
      Trade(5, EURUSD, "H4", Buy, At(5, 18, 8), 10880, Some(10820),
            Some(3000), 90, Null) }

\* every list of at most n rows of S with pairwise different ids
\* Rows for the aggregates: a ratio on every edge of the histogram (1, 1.5,
\* 2, 3) and inside every range, open and break-even trades, two trades
\* with the same entry_date, entry dates on both sides of every cutoff.
AggregateRows ==
    { Trade(1, EURUSD, "H1", Sell, At(5, 15, 0), 10850, Some(10820),
            Some(3000), 150, Null),
      Trade(2, XAUUSD, "H4", Buy, At(5, 15, 9), 19505, Some(19435),
            Some(-7000), 290, Null),
      Trade(3, XAUUSD, "H4", Sell, At(5, 10, 10), 19700, Null,
            Null, 200, Null),
      Trade(4, EURUSD, "H4", Buy, At(5, 18, 8), 10880, Some(10880),
            Some(0), 50, Null),
      Trade(5, XAUUSD, "H1", Buy, At(5, 22, 0), 19457, Some(19650),
            Some(19300), 300, Null),
      Trade(6, EURUSD, "D1", Buy, At(5, 15, 0), 10900, Some(10950),
            Some(5000), 100, Null),
      Trade(7, EURUSD, "H1", Buy, At(3, 2, 0), 10712, Some(10700),
            Some(-1200), 180, Null),
      Trade(8, XAUUSD, "D1", Sell, At(1, 10, 0), 19900, Some(19800),
            Some(10000), 400, Null) }

RECURSIVE ListsOf(_, _)
ListsOf(S, n) ==
    IF n = 0 THEN { << >> }
    ELSE LET shorter == ListsOf(S, n - 1)
         IN  shorter \cup
             { Append(l, t) : l \in { x \in shorter : Len(x) = n - 1 },
                              t \in S }

DistinctIds(l) == \A i, j \in 1..Len(l) : i # j => l[i].id # l[j].id

TradeLists(S) == { l \in ListsOf(S, MaxTrades) : DistinctIds(l) }

\* the lists of the aggregate rows, each row at most once, in any order
RECURSIVE OrderedLists(_, _)
OrderedLists(S, n) ==
    IF n = 0 THEN { << >> }
    ELSE { << >> } \cup
         UNION { { <<t>> \o l : l \in OrderedLists(S \ {t}, n - 1) } : t \in S }

(***************************************************************************)
(* TradeHistory: state after construction.                                 *)
(***************************************************************************)
EmptyFilters ==
    [pair |-> << >>, timeframe |-> "", type |-> << >>, dateFrom |-> Null,
     dateTo |-> Null, profitOnly |-> FALSE, lossOnly |-> FALSE]

\* useForm's defaultValues; a number field that holds no number (an empty
\* input read with valueAsNumber, or a field never set) is null here
defaultValues ==
    [type |-> Buy, entry_price |-> Null, exit_price |-> Null,
     stop_loss |-> Null, take_profit |-> Null, screenshot |-> FALSE]

\* TradeJournal after construction
journalInit ==
    /\ form = defaultValues
    /\ previewImage = FALSE
    /\ isSubmitting = FALSE
    /\ submission = Null
    /\ inserted = Null
    /\ reported = ""

\* Settings after construction and its mount effect (setLoading(true), the
\* timer pending), the settings table empty
settingsInit ==
    /\ settings = [riskPercentage |-> [n |-> 2, d |-> 1]]
    /\ settingsLoading = TRUE
    /\ saving = Null
    /\ settingsRows = << >>

\* no page rendered yet
NoRender == [page |-> "", filtered |-> << >>, sorted |-> << >>]

Init ==
    /\ rendered = NoRender
    /\ journalInit
    /\ settingsInit
    /\ trades = << >>
    /\ loading = TRUE
    /\ searchTerm = << >>
    /\ showFilters = FALSE
    /\ selectedTrade = Null
    /\ sortConfig = Null
    /\ filters = EmptyFilters
    /\ timeRange = "all"
    /\ now = At(6, 20, 12)

(***************************************************************************)
(* TradeHistory: filteredTrades.                                           *)
(***************************************************************************)
\* a slip: the term compared as typed, not lower-cased
passesSearchTermAsTyped(trade) ==
    ~ ( /\ searchTerm # << >>
        /\ ~ includes(toLowerCase(trade.pair), searchTerm)
        /\ (IF trade.notes = Null THEN TRUE
            ELSE ~ includes(toLowerCase(trade.notes[1]), searchTerm)) )

\* if (searchTerm && !pair.toLowerCase().includes(term) &&
\*     !trade.notes?.toLowerCase().includes(term)) return false;
passesSearch(trade) ==
    ~ ( /\ searchTerm # << >>
        /\ ~ includes(toLowerCase(trade.pair), toLowerCase(searchTerm))
        /\ (IF trade.notes = Null THEN TRUE
            ELSE ~ includes(toLowerCase(trade.notes[1]), toLowerCase(searchTerm))) )

\* a slip: the test without its guard, so an empty pair filter excludes
passesPairUnguarded(trade) == ~ (trade.pair # filters.pair)

\* if (filters.pair && trade.pair !== filters.pair) return false;
passesPair(trade) == ~ (filters.pair # << >> /\ trade.pair # filters.pair)

\* if (filters.timeframe && trade.timeframe !== filters.timeframe) return false;
passesTimeframe(trade) ==
    ~ (filters.timeframe # "" /\ trade.timeframe # filters.timeframe)

\* if (filters.type && trade.type !== filters.type) return false;
passesType(trade) == ~ (filters.type # << >> /\ trade.type # filters.type)

\* a slip: <= for <, so the lower bound excludes its own instant
passesDateFromExclusive(trade) ==
    ~ ( /\ filters.dateFrom # Null
        /\ getTime(trade.entry_date) <= getTime(filters.dateFrom[1]) )

\* if (filters.dateFrom && new Date(trade.entry_date) < new Date(filters.dateFrom)) return false;
passesDateFrom(trade) ==
    ~ ( /\ filters.dateFrom # Null
        /\ getTime(trade.entry_date) < getTime(filters.dateFrom[1]) )

\* a slip: >= for >, so the upper bound excludes its own instant
passesDateToExclusive(trade) ==
    ~ ( /\ filters.dateTo # Null
        /\ getTime(trade.entry_date) >= getTime(filters.dateTo[1]) )

\* if (filters.dateTo && new Date(trade.entry_date) > new Date(filters.dateTo)) return false;
passesDateTo(trade) ==
    ~ ( /\ filters.dateTo # Null
        /\ getTime(trade.entry_date) > getTime(filters.dateTo[1]) )

\* a slip: < for <=, so a trade with profit_loss 0 or null is kept
passesProfitOnlyKeepsZero(trade) ==
    ~ (filters.profitOnly /\ OrZero(trade.profit_loss) < 0)

\* if (filters.profitOnly && (trade.profit_loss || 0) <= 0) return false;
passesProfitOnly(trade) ==
    ~ (filters.profitOnly /\ OrZero(trade.profit_loss) <= 0)

\* if (filters.lossOnly && (trade.profit_loss || 0) >= 0) return false;
passesLossOnly(trade) ==
    ~ (filters.lossOnly /\ OrZero(trade.profit_loss) >= 0)

\* the callback of trades.filter: the first failing test returns false
keepTrade(trade) ==
    IF ~ passesSearch(trade) THEN FALSE
    ELSE IF ~ passesPair(trade) THEN FALSE
    ELSE IF ~ passesTimeframe(trade) THEN FALSE
    ELSE IF ~ passesType(trade) THEN FALSE
    ELSE IF ~ passesDateFrom(trade) THEN FALSE
    ELSE IF ~ passesDateTo(trade) THEN FALSE
    ELSE IF ~ passesProfitOnly(trade) THEN FALSE
    ELSE IF ~ passesLossOnly(trade) THEN FALSE
    ELSE TRUE

filteredTrades == SelectSeq(trades, keepTrade)

(***************************************************************************)
(* TradeHistory: sortedTrades.                                             *)
(***************************************************************************)
\* the columns whose header calls requestSort
SortKeys ==
    { "pair", "type", "entry_date", "entry_price", "exit_price",
      "profit_loss", "risk_reward_ratio" }

\* the columns the store may leave null
NullableKeys == { "exit_price", "profit_loss" }

\* a[sortConfig.key], as a nullable value
fieldOf(trade, key) ==
    IF key \in NullableKeys THEN trade[key] ELSE Some(trade[key])

\* x < y on two values of column key (numbers, strings, ISO timestamps)
lessThan(key, x, y) ==
    IF key \in { "pair", "type" } THEN StringLess(x, y)
    ELSE IF key = "entry_date" THEN IsoLess(x, y)
    ELSE x < y

\* a slip: null as the smallest value, so it follows the direction
compareNullsLowest(config, a, b) ==
    LET x == fieldOf(a, config.key)
        y == fieldOf(b, config.key)
        asc == config.direction = "asc"
    IN  IF x = Null /\ y = Null THEN 0
        ELSE IF x = Null THEN (IF asc THEN -1 ELSE 1)
        ELSE IF y = Null THEN (IF asc THEN 1 ELSE -1)
        ELSE IF lessThan(config.key, x[1], y[1]) THEN (IF asc THEN -1 ELSE 1)
        ELSE IF lessThan(config.key, y[1], x[1]) THEN (IF asc THEN 1 ELSE -1)
        ELSE 0

\* a slip: the direction is not read
compareIgnoresDirection(config, a, b) ==
    LET x == fieldOf(a, config.key)
        y == fieldOf(b, config.key)
    IN  IF x = Null THEN 1
        ELSE IF y = Null THEN -1
        ELSE IF lessThan(config.key, x[1], y[1]) THEN -1
        ELSE IF lessThan(config.key, y[1], x[1]) THEN 1
        ELSE 0

\* the comparator handed to sort, under the sort spec config
compare(config, a, b) ==
    LET x == fieldOf(a, config.key)
        y == fieldOf(b, config.key)
        asc == config.direction = "asc"
    IN  IF x = Null THEN 1
        ELSE IF y = Null THEN -1
        ELSE IF lessThan(config.key, x[1], y[1]) THEN (IF asc THEN -1 ELSE 1)
        ELSE IF lessThan(config.key, y[1], x[1]) THEN (IF asc THEN 1 ELSE -1)
        ELSE 0

\* Array.prototype.sort on a short array is an insertion sort.  The
\* comparator answers 1 both ways for two nulls, which is not a consistent
\* comparison, so the order is the engine's: an engine inserts each element
\* either by a scan from the right that stops at the first element e with
\* compare(e, item) <= 0, or by a binary search on compare(item, e) < 0.
Engines == { "linear", "binary" }

InsertAt(s, k, x) == SubSeq(s, 1, k) \o <<x>> \o SubSeq(s, k + 1, Len(s))

RECURSIVE linearPlace(_, _, _, _)
linearPlace(config, sorted, item, j) ==
    IF j = 0 THEN 0
    ELSE IF compare(config, sorted[j], item) <= 0 THEN j
    ELSE linearPlace(config, sorted, item, j - 1)

RECURSIVE binaryPlace(_, _, _, _, _)
binaryPlace(config, sorted, pivot, left, right) ==
    IF left >= right THEN left
    ELSE LET mid == left + ((right - left) \div 2)
         IN  IF compare(config, pivot, sorted[mid + 1]) < 0
             THEN binaryPlace(config, sorted, pivot, left, mid)
             ELSE binaryPlace(config, sorted, pivot, mid + 1, right)

RECURSIVE insertionSort(_, _, _, _)
insertionSort(engine, config, array, sorted) ==
    IF array = << >> THEN sorted
    ELSE LET item == Head(array)
             k == IF engine = "linear"
                  THEN linearPlace(config, sorted, item, Len(sorted))
                  ELSE binaryPlace(config, sorted, item, 0, Len(sorted))
         IN  insertionSort(engine, config, Tail(array), InsertAt(sorted, k, item))

\* [...list].sort(comparator) under the sort spec config
sortedCopy(engine, config, list) == insertionSort(engine, config, list, << >>)

\* a slip: a default order (newest first) when no sort spec is set
sortedTradesDefaultOrder(engine) ==
    sortedCopy(engine,
               IF sortConfig = Null THEN [key |-> "entry_date", direction |-> "desc"]
               ELSE sortConfig[1],
               filteredTrades)

\* useMemo: the filtered list itself without a sort spec, else a sorted copy
sortedTrades(engine) ==
    IF sortConfig = Null THEN filteredTrades
    ELSE sortedCopy(engine, sortConfig[1], filteredTrades)

(***************************************************************************)
(* TradeHistory: handlers.  While loading the page renders nothing but the *)
(* loading text; the filter inputs exist only while the panel is shown.    *)
(***************************************************************************)
filterVars == <<searchTerm, showFilters, filters>>

analyticsVars == <<timeRange, now>>

\* the timer callback of useEffect: setTrades(rows); setLoading(false)
loadTrades(rows) ==
    /\ loading = TRUE
    /\ \E l \in TradeLists(rows) : trades' = l
    /\ loading' = FALSE
    /\ UNCHANGED <<filterVars, selectedTrade, sortConfig, analyticsVars, journalVars, settingsVars, rendered>>

SearchTerms == { << >>, <<"e","U","r">>, <<"z","z">> }

\* onChange of the search box: setSearchTerm(e.target.value)
setSearchTerm ==
    /\ loading = FALSE
    /\ \E v \in SearchTerms : searchTerm' = v
    /\ UNCHANGED <<trades, loading, showFilters, filters, selectedTrade,
                   sortConfig, analyticsVars, journalVars, settingsVars, rendered>>

\* onClick of the Filters button: setShowFilters(!showFilters)
toggleShowFilters ==
    /\ loading = FALSE
    /\ showFilters' = ~ showFilters
    /\ UNCHANGED <<trades, loading, searchTerm, filters, selectedTrade,
                   sortConfig, analyticsVars, journalVars, settingsVars, rendered>>

\* setFilters({ ...filters, [field]: value }) of a select or a date input
setFilterField(field, values) ==
    /\ loading = FALSE
    /\ showFilters = TRUE
    /\ \E v \in values : filters' = [filters EXCEPT ![field] = v]
    /\ UNCHANGED <<trades, loading, searchTerm, showFilters, selectedTrade,
                   sortConfig, analyticsVars, journalVars, settingsVars, rendered>>

setPairFilter == setFilterField("pair", { << >>, EURUSD, XAUUSD })

setTimeframeFilter == setFilterField("timeframe", { "", "H4" })

setTypeFilter == setFilterField("type", { << >>, Buy, Sell })

setDateFrom == setFilterField("dateFrom", { Null, Some(OnDay(5, 15)) })

setDateTo == setFilterField("dateTo", { Null, Some(OnDay(5, 15)) })

\* a slip: Profit Only set without clearing Loss Only
changeProfitOnlyKeepsLoss ==
    /\ loading = FALSE
    /\ showFilters = TRUE
    /\ \E checked \in BOOLEAN : filters' = [filters EXCEPT !.profitOnly = checked]
    /\ UNCHANGED <<trades, loading, searchTerm, showFilters, selectedTrade,
                   sortConfig, analyticsVars, journalVars, settingsVars, rendered>>

\* onChange of the Profit Only checkbox
changeProfitOnly ==
    /\ loading = FALSE
    /\ showFilters = TRUE
    /\ \E checked \in BOOLEAN :
          filters' = [filters EXCEPT
                        !.profitOnly = checked,
                        !.lossOnly = IF checked THEN FALSE ELSE filters.lossOnly]
    /\ UNCHANGED <<trades, loading, searchTerm, showFilters, selectedTrade,
                   sortConfig, analyticsVars, journalVars, settingsVars, rendered>>

\* onChange of the Loss Only checkbox
changeLossOnly ==
    /\ loading = FALSE
    /\ showFilters = TRUE
    /\ \E checked \in BOOLEAN :
          filters' = [filters EXCEPT
                        !.lossOnly = checked,
                        !.profitOnly = IF checked THEN FALSE ELSE filters.profitOnly]
    /\ UNCHANGED <<trades, loading, searchTerm, showFilters, selectedTrade,
                   sortConfig, analyticsVars, journalVars, settingsVars, rendered>>

\* Object.values(filters).some(value => value !== '' && value !== false)
someFilterActive ==
    \/ filters.pair # << >>
    \/ filters.timeframe # ""
    \/ filters.type # << >>
    \/ filters.dateFrom # Null
    \/ filters.dateTo # Null
    \/ filters.profitOnly
    \/ filters.lossOnly

\* a slip: the search box left as it is
resetFiltersKeepsSearch ==
    /\ loading = FALSE
    /\ someFilterActive
    /\ filters' = EmptyFilters
    /\ UNCHANGED <<trades, loading, searchTerm, showFilters, selectedTrade,
                   sortConfig, analyticsVars, journalVars, settingsVars, rendered>>

\* onClick of the clear button, rendered while some filter is active
resetFilters ==
    /\ loading = FALSE
    /\ someFilterActive
    /\ filters' = EmptyFilters
    /\ searchTerm' = << >>
    /\ UNCHANGED <<trades, loading, showFilters, selectedTrade, sortConfig,
                   analyticsVars, journalVars, settingsVars, rendered>>

\* a slip: the direction flips without a look at the key
requestSortAnyKey(key) ==
    /\ loading = FALSE
    /\ LET direction ==
            IF sortConfig # Null /\ sortConfig[1].direction = "asc"
            THEN "desc" ELSE "asc"
       IN  sortConfig' = Some([key |-> key, direction |-> direction])
    /\ UNCHANGED <<trades, loading, filterVars, selectedTrade, analyticsVars, journalVars, settingsVars, rendered>>

\* onClick of a column header
requestSort(key) ==
    /\ loading = FALSE
    /\ LET direction ==
            IF sortConfig # Null /\ sortConfig[1].key = key
               /\ sortConfig[1].direction = "asc"
            THEN "desc" ELSE "asc"
       IN  sortConfig' = Some([key |-> key, direction |-> direction])
    /\ UNCHANGED <<trades, loading, filterVars, selectedTrade, analyticsVars, journalVars, settingsVars, rendered>>

\* onClick of a row or of its view button: setSelectedTrade(trade)
selectTrade ==
    /\ loading = FALSE
    /\ \E i \in 1..Len(filteredTrades) : selectedTrade' = Some(filteredTrades[i])
    /\ UNCHANGED <<trades, loading, filterVars, sortConfig, analyticsVars, journalVars, settingsVars, rendered>>

\* onClick of the close buttons of the details: setSelectedTrade(null)
closeTrade ==
    /\ loading = FALSE
    /\ selectedTrade # Null
    /\ selectedTrade' = Null
    /\ UNCHANGED <<trades, loading, filterVars, sortConfig, analyticsVars, journalVars, settingsVars, rendered>>

NextFilter ==
    \/ loadTrades(FilterRows)
    \/ setSearchTerm
    \/ toggleShowFilters
    \/ setPairFilter
    \/ setTimeframeFilter
    \/ setTypeFilter
    \/ setDateFrom
    \/ setDateTo
    \/ changeProfitOnly
    \/ changeLossOnly
    \/ resetFilters

SpecFilter == Init /\ [][NextFilter]_vars

NextSort ==
    \/ loadTrades(SortRows)
    \/ \E key \in SortKeys : requestSort(key)
    \/ toggleShowFilters
    \/ changeProfitOnly
    \/ changeLossOnly
    \/ resetFilters
    \/ selectTrade
    \/ closeTrade

SpecSort == Init /\ [][NextSort]_vars

\* TradeHistory with the search box, a filter, the sort and the selection
NextReset ==
    \/ loadTrades(SortRows)
    \/ setSearchTerm
    \/ toggleShowFilters
    \/ changeProfitOnly
    \/ \E key \in SortKeys : requestSort(key)
    \/ selectTrade
    \/ closeTrade
    \/ resetFilters

SpecReset == Init /\ [][NextReset]_vars

(***************************************************************************)
(* Analytics: the trades of the time range and their aggregates.           *)
(***************************************************************************)
RECURSIVE GCD(_, _)
GCD(a, b) == IF b = 0 THEN a ELSE GCD(b, a % b)

Abs(x) == IF x < 0 THEN -x ELSE x

\* the number n / d of JavaScript, in lowest terms; d = 0 gives NaN (n = 0)
\* or an infinity
Frac(n, d) ==
    IF d = 0
    THEN [n |-> IF n = 0 THEN 0 ELSE IF n > 0 THEN 1 ELSE -1, d |-> 0]
    ELSE LET g == GCD(Abs(n), d) IN [n |-> n \div g, d |-> d \div g]

RECURSIVE SumSeq(_)
SumSeq(l) == IF l = << >> THEN 0 ELSE Head(l) + SumSeq(Tail(l))

\* the clock readings of a session; the day of the month exists in every
\* month, so setMonth and setFullYear do not roll over
ClockReadings == { At(6, 20, 12), At(9, 1, 0) }

\* cutoffDate after the switch on timeRange
cutoffDate ==
    [now EXCEPT !.month = @ - (CASE timeRange = "1m" -> 1
                                 [] timeRange = "3m" -> 3
                                 [] timeRange = "6m" -> 6
                                 [] timeRange = "1y" -> 12)]

inTimeRange(trade) == getTime(trade.entry_date) >= getTime(cutoffDate)

\* Analytics filteredTrades
rangeTrades ==
    IF timeRange = "all" THEN trades ELSE SelectSeq(trades, inTimeRange)

profitOf(l) == [i \in 1..Len(l) |-> OrZero(l[i].profit_loss)]

\* a slip: >= for >, a break-even trade counted as won
isWinningCountsZero(trade) == OrZero(trade.profit_loss) >= 0

isWinning(trade) == OrZero(trade.profit_loss) > 0

isLosing(trade) == OrZero(trade.profit_loss) < 0

\* a slip: the reduce over the winning trades only
totalProfitOfWinners ==
    LET won(t) == OrZero(t.profit_loss) > 0
    IN  SumSeq(profitOf(SelectSeq(rangeTrades, won)))

totalProfitLoss == SumSeq(profitOf(rangeTrades))

winningTrades == SelectSeq(rangeTrades, isWinning)

losingTrades == SelectSeq(rangeTrades, isLosing)

\* a slip: the division without its guard, 0 / 0 over an empty list
winRateUnguarded == Frac(Len(winningTrades) * 100, Len(rangeTrades))

winRate ==
    IF Len(rangeTrades) > 0
    THEN Frac(Len(winningTrades) * 100, Len(rangeTrades))
    ELSE Frac(0, 1)

\* in hundredths, as risk_reward_ratio is
avgRiskReward ==
    IF Len(rangeTrades) > 0
    THEN Frac(SumSeq([i \in 1..Len(rangeTrades) |-> rangeTrades[i].risk_reward_ratio]),
              Len(rangeTrades))
    ELSE Frac(0, 1)

\* the keys of the record built by reduce, in the order Object.entries
\* lists them: the order of first insertion
RECURSIVE groupKeys(_, _, _)
groupKeys(l, field, acc) ==
    IF l = << >> THEN acc
    ELSE groupKeys(Tail(l), field,
                   IF IsIn(acc, Head(l)[field]) THEN acc
                   ELSE Append(acc, Head(l)[field]))

\* a slip: acc[key] = [trade] for acc[key].push(trade), a group holding
\* only its last trade
groupOfLastOnly(l, field, key) ==
    LET sameKey(t) == t[field] = key
        group == SelectSeq(l, sameKey)
    IN  <<group[Len(group)]>>

\* acc[key]: the trades pushed under key
groupOf(l, field, key) ==
    LET sameKey(t) == t[field] = key IN SelectSeq(l, sameKey)

\* a slip: no grouping, one entry per trade
pnlByPairPerTrade ==
    [i \in 1..Len(rangeTrades) |->
        [pair |-> rangeTrades[i].pair,
         pnl |-> OrZero(rangeTrades[i].profit_loss),
         count |-> 1]]

pnlByPair ==
    LET keys == groupKeys(rangeTrades, "pair", << >>)
    IN  [i \in 1..Len(keys) |->
            LET group == groupOf(rangeTrades, "pair", keys[i])
            IN  [pair |-> keys[i],
                 pnl |-> SumSeq(profitOf(group)),
                 count |-> Len(group)]]

\* a slip: the win rate of every group taken over all the trades
pnlByTimeframeOverallRate ==
    LET keys == groupKeys(rangeTrades, "timeframe", << >>)
    IN  [i \in 1..Len(keys) |->
            LET group == groupOf(rangeTrades, "timeframe", keys[i])
            IN  [timeframe |-> keys[i],
                 pnl |-> SumSeq(profitOf(group)),
                 count |-> Len(group),
                 winRate |-> Frac(Len(SelectSeq(rangeTrades, isWinning)) * 100,
                                  Len(rangeTrades))]]

pnlByTimeframe ==
    LET keys == groupKeys(rangeTrades, "timeframe", << >>)
    IN  [i \in 1..Len(keys) |->
            LET group == groupOf(rangeTrades, "timeframe", keys[i])
            IN  [timeframe |-> keys[i],
                 pnl |-> SumSeq(profitOf(group)),
                 count |-> Len(group),
                 winRate |-> Frac(Len(SelectSeq(group, isWinning)) * 100, Len(group))]]

\* [...filteredTrades].sort((a, b) => getTime(a) - getTime(b)): a consistent
\* comparator, so the sort is the stable one
RECURSIVE chronoPlace(_, _, _)
chronoPlace(sorted, item, j) ==
    IF j = 0 THEN 0
    ELSE IF getTime(sorted[j].entry_date) - getTime(item.entry_date) <= 0 THEN j
    ELSE chronoPlace(sorted, item, j - 1)

RECURSIVE chronoSort(_, _)
chronoSort(array, sorted) ==
    IF array = << >> THEN sorted
    ELSE chronoSort(Tail(array),
                    InsertAt(sorted, chronoPlace(sorted, Head(array), Len(sorted)),
                             Head(array)))

\* a slip: the running sum taken over the list as loaded, without the sort
chronologicalTradesUnsorted == rangeTrades

\* Analytics sortedTrades
chronologicalTrades == chronoSort(rangeTrades, << >>)

\* the reduce of cumulativePnlData: acc[index] = acc[index - 1] + (profit_loss || 0)
RECURSIVE runningSum(_, _)
runningSum(l, acc) ==
    IF l = << >> THEN acc
    ELSE runningSum(Tail(l),
                    Append(acc, (IF Len(acc) > 0 THEN acc[Len(acc)] ELSE 0)
                                + OrZero(Head(l).profit_loss)))

cumulativePnl == runningSum(chronologicalTrades, << >>)

\* a slip: <= for <, a ratio on an edge counted in the range below it
rangeIndexUpperInclusive(rr) ==
    IF rr <= 100 THEN 1
    ELSE IF rr <= 150 THEN 2
    ELSE IF rr <= 200 THEN 3
    ELSE IF rr <= 300 THEN 4
    ELSE 5

\* the index of the range a ratio (in hundredths) is counted in
rangeIndex(rr) ==
    IF rr < 100 THEN 1
    ELSE IF rr < 150 THEN 2
    ELSE IF rr < 200 THEN 3
    ELSE IF rr < 300 THEN 4
    ELSE 5

\* a slip: five separate ifs instead of the else-if chain, a trade counted
\* in every range whose test it passes
riskRewardRangesEveryMatch ==
    LET shown == rangeTrades
    IN  [b \in 1..5 |->
            Cardinality({ i \in 1..Len(shown) :
                            rangeIndex(shown[i].risk_reward_ratio) <= b \/ b = 5 })]

\* the counts of riskRewardRanges after the forEach
riskRewardRanges ==
    LET shown == rangeTrades
    IN  [b \in 1..5 |->
            Cardinality({ i \in 1..Len(shown) :
                            rangeIndex(shown[i].risk_reward_ratio) = b })]

(***************************************************************************)
(* Dashboard: the summary metrics, computed over the whole trade list.     *)
(***************************************************************************)
dashboardTotalProfitLoss == SumSeq(profitOf(trades))

dashboardWinningTrades == SelectSeq(trades, isWinning)

dashboardWinRate ==
    IF Len(trades) > 0
    THEN Frac(Len(dashboardWinningTrades) * 100, Len(trades))
    ELSE Frac(0, 1)

\* the reduce of profitLossChartData, over trades as the store supplied them
dashboardCumulativePnl == runningSum(trades, << >>)

\* the timer callback of the Dashboard's useEffect: setTrades(mockTrades);
\* setLoading(false)
loadDashboardTrades ==
    /\ loading = TRUE
    /\ \E l \in OrderedLists(AggregateRows, MaxAggregateTrades) : trades' = l
    /\ loading' = FALSE
    /\ UNCHANGED <<filterVars, selectedTrade, sortConfig, analyticsVars, journalVars, settingsVars, rendered>>

InitDashboard == Init

NextDashboard == loadDashboardTrades

SpecDashboard == InitDashboard /\ [][NextDashboard]_vars

InitAnalytics ==
    /\ rendered = NoRender
    /\ journalInit
    /\ settingsInit
    /\ trades = << >>
    /\ loading = TRUE
    /\ searchTerm = << >>
    /\ showFilters = FALSE
    /\ selectedTrade = Null
    /\ sortConfig = Null
    /\ filters = EmptyFilters
    /\ timeRange = "all"
    /\ now \in ClockReadings

\* the timer callback of Analytics' useEffect: setTrades(mockTrades);
\* setLoading(false)
loadAnalyticsTrades ==
    /\ loading = TRUE
    /\ \E l \in OrderedLists(AggregateRows, MaxAggregateTrades) : trades' = l
    /\ loading' = FALSE
    /\ UNCHANGED <<filterVars, selectedTrade, sortConfig, analyticsVars, journalVars, settingsVars, rendered>>

\* onClick of a time range button
setTimeRange ==
    /\ loading = FALSE
    /\ \E r \in { "all", "1m", "3m", "6m", "1y" } : timeRange' = r
    /\ UNCHANGED <<trades, loading, filterVars, selectedTrade, sortConfig, now,
                   journalVars, settingsVars, rendered>>

NextAnalytics ==
    \/ loadAnalyticsTrades
    \/ setTimeRange

SpecAnalytics == InitAnalytics /\ [][NextAnalytics]_vars

\* the Analytics page as the per-pair and per-timeframe breakdowns see it
SpecBreakdowns == InitAnalytics /\ [][NextAnalytics]_vars

(***************************************************************************)
(* The arrays of a render.  Array.prototype.filter returns a new array and *)
(* Array.prototype.sort sorts its receiver in place; rendered holds what   *)
(* the filtered and the sorted array of the page contain once the render   *)
(* is over, trades what the array held by useState contains.               *)
(***************************************************************************)
\* a render of TradeHistory: trades.filter(...), then [...filteredTrades].sort(...)
renderTradeHistory ==
    /\ \E engine \in Engines :
          rendered' = [page |-> "TradeHistory", filtered |-> filteredTrades,
                       sorted |-> sortedTrades(engine)]
    /\ UNCHANGED <<trades, loading, filterVars, selectedTrade, sortConfig,
                   analyticsVars, journalVars, settingsVars>>

\* a slip: filteredTrades.sort(...) without the copy; for the range 'all'
\* filteredTrades is the array of useState itself
renderAnalyticsSortsInPlace ==
    /\ rendered' = [page |-> "Analytics", filtered |-> chronologicalTrades,
                    sorted |-> chronologicalTrades]
    /\ trades' = IF timeRange = "all" THEN chronologicalTrades ELSE trades
    /\ UNCHANGED <<loading, filterVars, selectedTrade, sortConfig,
                   analyticsVars, journalVars, settingsVars>>

\* a render of Analytics: filteredTrades by the time range, then
\* [...filteredTrades].sort(...) by entry_date
renderAnalytics ==
    /\ rendered' = [page |-> "Analytics", filtered |-> rangeTrades,
                    sorted |-> chronologicalTrades]
    /\ UNCHANGED <<trades, loading, filterVars, selectedTrade, sortConfig,
                   analyticsVars, journalVars, settingsVars>>

SortConfigs ==
    { Null } \cup { Some([key |-> k, direction |-> d]) :
                      k \in SortKeys, d \in { "asc", "desc" } }

\* a page with trades loaded, before a render: any list, any sort spec, the
\* Profit Only filter on or off, any time range
InitRender ==
    /\ rendered = NoRender
    /\ journalInit
    /\ settingsInit
    /\ trades \in TradeLists(SortRows)
    /\ loading = FALSE
    /\ searchTerm = << >>
    /\ showFilters = FALSE
    /\ selectedTrade = Null
    /\ sortConfig \in SortConfigs
    /\ filters \in { EmptyFilters, [EmptyFilters EXCEPT !.profitOnly = TRUE] }
    /\ timeRange \in { "all", "1m", "3m", "6m", "1y" }
    /\ now = At(6, 20, 12)

NextRender ==
    \/ renderTradeHistory
    \/ renderAnalytics

SpecRender == InitRender /\ [][NextRender]_vars

(***************************************************************************)
(* TradeJournal: the risk:reward of the form and onSubmit.                 *)
(* A price is a whole number; the fields of the form that the model does   *)
(* not compute with (pair, timeframe, dates, indicators, notes) are left   *)
(* out of the form and of the inserted row.                                *)
(***************************************************************************)
\* !x for a number field: no number (undefined, NaN) or 0
falsy(x) == x = Null \/ x = Some(0)

Digits == <<"0", "1", "2", "3", "4", "5", "6", "7", "8", "9">>

\* String(n) for a whole number n >= 0
RECURSIVE digitsOf(_)
digitsOf(n) ==
    IF n < 10 THEN <<Digits[n + 1]>>
    ELSE Append(digitsOf(n \div 10), Digits[(n % 10) + 1])

\* x.toFixed(2) for x = f.n / f.d: the nearest number of hundredths, a half
\* rounded away from 0, spelled with two decimals
toFixed2(f) ==
    LET a == Abs(f.n) * 100
        q == a \div f.d
        h == IF 2 * (a % f.d) >= f.d THEN q + 1 ELSE q
    IN  (IF f.n < 0 THEN <<"-">> ELSE << >>)
        \o digitsOf(h \div 100)
        \o <<".", Digits[((h \div 10) % 10) + 1], Digits[(h % 10) + 1]>>

NaN == [n |-> 0, d |-> 0]

RECURSIVE leadingDigits(_)
leadingDigits(s) ==
    IF s = << >> \/ ~ IsIn(Digits, Head(s)) THEN << >>
    ELSE <<Head(s)>> \o leadingDigits(Tail(s))

RECURSIVE numberOf(_, _)
numberOf(digits, acc) ==
    IF digits = << >> THEN acc
    ELSE numberOf(Tail(digits), acc * 10 + IndexOf(Digits, Head(digits)) - 1)

RECURSIVE pow10(_)
pow10(k) == IF k = 0 THEN 1 ELSE 10 * pow10(k - 1)

\* parseFloat(text): the number spelled by the longest prefix of the form
\* sign, digits, '.', digits, NaN when there is no digit; the texts of the
\* model hold no exponent and no leading blank
parseFloat(text) ==
    LET signed == text # << >> /\ Head(text) \in { "-", "+" }
        body == IF signed THEN Tail(text) ELSE text
        whole == leadingDigits(body)
        rest == SubSeq(body, Len(whole) + 1, Len(body))
        decimals == IF rest # << >> /\ Head(rest) = "."
                    THEN leadingDigits(Tail(rest)) ELSE << >>
        n == numberOf(whole \o decimals, 0)
    IN  IF whole = << >> /\ decimals = << >> THEN NaN
        ELSE Frac(IF Head(text) = "-" THEN -n ELSE n, pow10(Len(decimals)))

\* a value of calculateRiskReward is the number 0 or the text of toFixed(2);
\* both its uses, the JSX after '1:' and parseFloat, take its text, and it
\* is kept as that text
NumberZero == <<"0">>

calculateRiskReward(tradeType, entryPrice, stopLoss, takeProfit) ==
    IF falsy(stopLoss) \/ falsy(takeProfit) \/ falsy(entryPrice) THEN NumberZero
    ELSE LET risk == IF tradeType = Buy THEN entryPrice[1] - stopLoss[1]
                     ELSE stopLoss[1] - entryPrice[1]
             reward == IF tradeType = Buy THEN takeProfit[1] - entryPrice[1]
                       ELSE entryPrice[1] - takeProfit[1]
         IN  IF risk <= 0 THEN NumberZero ELSE toFixed2(Frac(reward, risk))

\* the value rendered after '1:' for the watched fields
riskRewardShown ==
    calculateRiskReward(form.type, form.entry_price, form.stop_loss,
                        form.take_profit)

\* the values the user enters; with them no quotient lies on a half of a
\* hundredth
EntryPrices == { 100 }

StopLosses == { 90, 110, 130 }

TakeProfits == { 90, 130 }

ExitPrices == { 120 }

\* register(...) with required and min 0: handleSubmit calls onSubmit only
\* when entry price, stop loss and take profit hold a number >= 0
formAccepted(data) ==
    \A f \in { "entry_price", "stop_loss", "take_profit" } :
        data[f] # Null /\ data[f][1] >= 0

\* x || null
OrNull(x) == IF falsy(x) THEN Null ELSE x

\* profit_loss as onSubmit computes it
profitLossOf(data) ==
    IF ~ falsy(data.entry_price) /\ ~ falsy(data.exit_price)
    THEN IF data.type = Buy
         THEN Some((data.exit_price[1] - data.entry_price[1]) * 100)
         ELSE Some((data.entry_price[1] - data.exit_price[1]) * 100)
    ELSE Null

\* risk_reward_ratio as onSubmit computes it; the watched values that
\* calculateRiskReward reads are those of the render that was submitted
riskRewardOf(data) ==
    IF ~ falsy(data.take_profit) /\ ~ falsy(data.stop_loss)
    THEN parseFloat(calculateRiskReward(data.type, data.entry_price,
                                        data.stop_loss, data.take_profit))
    ELSE Frac(0, 1)

\* the argument of insert
rowOf(data, screenshot_url) ==
    [type |-> data.type, entry_price |-> data.entry_price,
     exit_price |-> OrNull(data.exit_price), stop_loss |-> data.stop_loss,
     take_profit |-> data.take_profit, profit_loss |-> profitLossOf(data),
     risk_reward_ratio |-> riskRewardOf(data),
     screenshot_url |-> screenshot_url]

otherPagesAtRest ==
    UNCHANGED <<trades, loading, filterVars, selectedTrade, sortConfig,
                analyticsVars, settingsVars, rendered>>

\* onChange of a registered field
setFormField(field, values) ==
    /\ \E v \in values : form' = [form EXCEPT ![field] = v]
    /\ UNCHANGED <<previewImage, isSubmitting, submission, inserted, reported>>
    /\ otherPagesAtRest

setType == setFormField("type", { Buy, Sell })

setEntryPrice == setFormField("entry_price", { Null } \cup { Some(v) : v \in EntryPrices })

setStopLoss == setFormField("stop_loss", { Null } \cup { Some(v) : v \in StopLosses })

setTakeProfit == setFormField("take_profit", { Null } \cup { Some(v) : v \in TakeProfits })

setExitPrice == setFormField("exit_price", { Null } \cup { Some(v) : v \in ExitPrices })

\* onChange of the file input with a file chosen: the field takes the file,
\* handleImageChange reads it and sets the preview
chooseScreenshot ==
    /\ form' = [form EXCEPT !.screenshot = TRUE]
    /\ previewImage' = TRUE
    /\ UNCHANGED <<isSubmitting, submission, inserted, reported>>
    /\ otherPagesAtRest

\* onClick of the button on the preview: the preview goes, the field of
\* the form keeps the file
removePreview ==
    /\ previewImage = TRUE
    /\ previewImage' = FALSE
    /\ UNCHANGED <<form, isSubmitting, submission, inserted, reported>>
    /\ otherPagesAtRest

\* the submit button (disabled while isSubmitting): onSubmit(data) up to its
\* first await, the upload when a screenshot is attached, else the insert
onSubmit ==
    /\ ~ isSubmitting
    /\ formAccepted(form)
    /\ isSubmitting' = TRUE
    /\ submission' = Some([at |-> IF form.screenshot THEN "upload" ELSE "insert",
                           data |-> form, screenshot_url |-> FALSE])
    /\ reported' = ""
    /\ UNCHANGED <<form, previewImage, inserted>>
    /\ otherPagesAtRest

\* a slip: the insert sent although the upload returned an error
uploadReturnsErrorIgnored ==
    /\ submission # Null
    /\ submission[1].at = "upload"
    /\ \E uploadError \in BOOLEAN :
          submission' = Some([submission[1] EXCEPT !.at = "insert",
                                                   !.screenshot_url = ~ uploadError])
    /\ UNCHANGED <<form, previewImage, inserted, reported, isSubmitting>>
    /\ otherPagesAtRest

\* what a run reports: 'saved' for alert('Trade saved successfully!'), and
\* for console.error(..., error) followed by alert('Failed to save trade.
\* Please try again.') the error that was caught, uploadError or error.
\* The upload returns: with an error onSubmit goes through catch and
\* finally, else it goes on to the insert with the public URL
uploadReturns ==
    /\ submission # Null
    /\ submission[1].at = "upload"
    /\ \E uploadError \in BOOLEAN :
          IF uploadError
          THEN /\ submission' = Null
               /\ reported' = "uploadError"
               /\ isSubmitting' = FALSE
          ELSE /\ submission' = Some([submission[1] EXCEPT !.at = "insert",
                                                         !.screenshot_url = TRUE])
               /\ UNCHANGED <<reported, isSubmitting>>
    /\ UNCHANGED <<form, previewImage, inserted>>
    /\ otherPagesAtRest

\* a slip: setIsSubmitting(false) at the end of try instead of in finally
insertReturnsNoFinally ==
    /\ submission # Null
    /\ submission[1].at = "insert"
    /\ \/ /\ reported' = "error"
          /\ UNCHANGED <<form, previewImage, inserted, isSubmitting>>
       \/ /\ inserted' = Some(rowOf(submission[1].data,
                                    submission[1].screenshot_url))
          /\ form' = defaultValues
          /\ previewImage' = FALSE
          /\ reported' = "saved"
          /\ isSubmitting' = FALSE
    /\ submission' = Null
    /\ otherPagesAtRest

\* the insert returns: with an error (the first case) catch and finally,
\* else the table holds the row, reset(), setPreviewImage(null), the alert
\* of the success and finally
insertReturns ==
    /\ submission # Null
    /\ submission[1].at = "insert"
    /\ \/ /\ reported' = "error"
          /\ UNCHANGED <<form, previewImage, inserted>>
       \/ /\ inserted' = Some(rowOf(submission[1].data,
                                    submission[1].screenshot_url))
          /\ form' = defaultValues
          /\ previewImage' = FALSE
          /\ reported' = "saved"
    /\ submission' = Null
    /\ isSubmitting' = FALSE
    /\ otherPagesAtRest

InitJournal == Init

NextJournal ==
    \/ setType
    \/ setEntryPrice
    \/ setStopLoss
    \/ setTakeProfit
    \/ setExitPrice
    \/ chooseScreenshot
    \/ removePreview
    \/ onSubmit
    \/ uploadReturns
    \/ insertReturns

SpecJournal == InitJournal /\ [][NextJournal]_vars

\* the forms the field handlers can leave behind
Forms ==
    [type : { Buy, Sell },
     entry_price : { Null } \cup { Some(v) : v \in EntryPrices },
     exit_price : { Null } \cup { Some(v) : v \in ExitPrices },
     stop_loss : { Null } \cup { Some(v) : v \in StopLosses },
     take_profit : { Null } \cup { Some(v) : v \in TakeProfits },
     screenshot : BOOLEAN]

\* TradeJournal with the form filled in and no run of onSubmit yet
InitSubmit ==
    /\ rendered = NoRender
    /\ form \in Forms
    /\ previewImage \in (IF form.screenshot THEN BOOLEAN ELSE { FALSE })
    /\ isSubmitting = FALSE
    /\ submission = Null
    /\ inserted = Null
    /\ reported = ""
    /\ settingsInit
    /\ trades = << >>
    /\ loading = TRUE
    /\ searchTerm = << >>
    /\ showFilters = FALSE
    /\ selectedTrade = Null
    /\ sortConfig = Null
    /\ filters = EmptyFilters
    /\ timeRange = "all"
    /\ now = At(6, 20, 12)

\* the runs of onSubmit on a form that is left alone
NextSubmit ==
    \/ onSubmit
    \/ uploadReturns
    \/ insertReturns

\* the awaited calls of onSubmit settle: the promise of the upload and the
\* promise of the insert each resolve, with or without an error
SpecSubmit ==
    /\ InitSubmit
    /\ [][NextSubmit]_vars
    /\ WF_vars(uploadReturns)
    /\ WF_vars(insertReturns)

(***************************************************************************)
(* Settings: the risk percentage and saveSettings.                         *)
(***************************************************************************)
\* x <= y for two numbers that are not NaN
lessOrEqual(x, y) == x.n * y.d <= y.n * x.d

isNaN(x) == x.d = 0 /\ x.n = 0

\* the texts e.target.value of the number input takes: empty (also what an
\* input of type number gives for a text that is no number) or a decimal
RiskInputs ==
    { << >>, <<"0", ".", "1">>, <<"0", ".", "0", "5">>, <<"1", "0">>,
      <<"1", "0", ".", "1">>, <<"5">>, <<"2", ".", "5">>, <<"-", "1">> }

otherPagesIdle ==
    UNCHANGED <<trades, loading, filterVars, selectedTrade, sortConfig,
                analyticsVars, journalVars, rendered>>

\* a slip: the test value <= 10 left out
handleRiskPercentageChangeNoMax(text) ==
    /\ ~ settingsLoading
    /\ LET value == parseFloat(text)
       IN  IF ~ isNaN(value) /\ lessOrEqual(Frac(1, 10), value)
           THEN settings' = [settings EXCEPT !.riskPercentage = value]
           ELSE UNCHANGED settings
    /\ UNCHANGED <<settingsLoading, saving, settingsRows>>
    /\ otherPagesIdle

\* onChange of the risk percentage input (disabled while loading)
handleRiskPercentageChange(text) ==
    /\ ~ settingsLoading
    /\ LET value == parseFloat(text)
       IN  IF /\ ~ isNaN(value)
              /\ lessOrEqual(Frac(1, 10), value)
              /\ lessOrEqual(value, Frac(10, 1))
           THEN settings' = [settings EXCEPT !.riskPercentage = value]
           ELSE UNCHANGED settings
    /\ UNCHANGED <<settingsLoading, saving, settingsRows>>
    /\ otherPagesIdle

\* the timer of the mount effect: setLoading(false)
settingsTimer ==
    /\ settingsLoading
    /\ saving = Null
    /\ settingsLoading' = FALSE
    /\ UNCHANGED <<settings, saving, settingsRows>>
    /\ otherPagesIdle

userId == "user-id-placeholder"

\* the Save button (disabled while loading): saveSettings up to its first
\* await, the select; settings is the one of the render that was clicked
saveSettings ==
    /\ ~ settingsLoading
    /\ settingsLoading' = TRUE
    /\ saving' = Some([at |-> "select", id |-> 0,
                       risk_percentage |-> settings.riskPercentage])
    /\ UNCHANGED <<settings, settingsRows>>
    /\ otherPagesIdle

\* .select('id').eq('user_id', userId).limit(1)
selectedRows ==
    LET ofUser(row) == row.user_id = userId
        found == SelectSeq(settingsRows, ofUser)
    IN  IF found = << >> THEN << >> ELSE <<Head(found)>>

\* a slip: the test of data.length left out, every run inserts
selectReturnsAlwaysInserts ==
    /\ saving # Null
    /\ saving[1].at = "select"
    /\ \E fetchError \in BOOLEAN :
          IF fetchError
          THEN /\ saving' = Null
               /\ settingsLoading' = FALSE
          ELSE /\ saving' = Some([saving[1] EXCEPT !.at = "insert"])
               /\ UNCHANGED settingsLoading
    /\ UNCHANGED <<settings, settingsRows>>
    /\ otherPagesIdle

\* the select returns: with an error catch and finally, else the update of
\* the row found or the insert of a new one is sent
selectReturns ==
    /\ saving # Null
    /\ saving[1].at = "select"
    /\ \E fetchError \in BOOLEAN :
          IF fetchError
          THEN /\ saving' = Null
               /\ settingsLoading' = FALSE
          ELSE /\ saving' = Some(IF Len(selectedRows) > 0
                                 THEN [saving[1] EXCEPT !.at = "update",
                                                        !.id = selectedRows[1].id]
                                 ELSE [saving[1] EXCEPT !.at = "insert"])
               /\ UNCHANGED settingsLoading
    /\ UNCHANGED <<settings, settingsRows>>
    /\ otherPagesIdle

\* the update returns; without an error the table has the new value in the
\* rows of that id
updateReturns ==
    /\ saving # Null
    /\ saving[1].at = "update"
    /\ \E error \in BOOLEAN :
          IF error THEN UNCHANGED settingsRows
          ELSE settingsRows' =
                 [i \in 1..Len(settingsRows) |->
                    IF settingsRows[i].id = saving[1].id
                    THEN [settingsRows[i] EXCEPT
                            !.risk_percentage = saving[1].risk_percentage]
                    ELSE settingsRows[i]]
    /\ saving' = Null
    /\ settingsLoading' = FALSE
    /\ UNCHANGED settings
    /\ otherPagesIdle

\* the insert returns; without an error the table has one more row
insertSettingsReturns ==
    /\ saving # Null
    /\ saving[1].at = "insert"
    /\ \E error \in BOOLEAN :
          IF error THEN UNCHANGED settingsRows
          ELSE settingsRows' =
                 Append(settingsRows,
                        [id |-> Len(settingsRows) + 1, user_id |-> userId,
                         risk_percentage |-> saving[1].risk_percentage])
    /\ saving' = Null
    /\ settingsLoading' = FALSE
    /\ UNCHANGED settings
    /\ otherPagesIdle

\* the settings table when the page is mounted: empty, the row of another
\* user, or a row of the user
StoredSettings ==
    { << >>,
      <<[id |-> 1, user_id |-> "another-user", risk_percentage |-> Frac(5, 1)]>>,
      <<[id |-> 1, user_id |-> userId, risk_percentage |-> Frac(1, 1)]>> }

InitSettings ==
    /\ rendered = NoRender
    /\ journalInit
    /\ settings = [riskPercentage |-> Frac(2, 1)]
    /\ settingsLoading = TRUE
    /\ saving = Null
    /\ settingsRows \in StoredSettings
    /\ trades = << >>
    /\ loading = TRUE
    /\ searchTerm = << >>
    /\ showFilters = FALSE
    /\ selectedTrade = Null
    /\ sortConfig = Null
    /\ filters = EmptyFilters
    /\ timeRange = "all"
    /\ now = At(6, 20, 12)

NextSettings ==
    \/ settingsTimer
    \/ \E text \in RiskInputs : handleRiskPercentageChange(text)
    \/ saveSettings
    \/ selectReturns
    \/ updateReturns
    \/ insertSettingsReturns

SpecSettings == InitSettings /\ [][NextSettings]_vars

(***************************************************************************)
(* Properties of the filter (checked under SpecFilter).                    *)
(***************************************************************************)
Range(l) == { l[i] : i \in 1..Len(l) }

\* the criteria of the data model, each one inactive when empty or false
MeetsSearch(t) ==
    \/ searchTerm = << >>
    \/ includes(toLowerCase(t.pair), toLowerCase(searchTerm))
    \/ t.notes # Null /\ includes(toLowerCase(t.notes[1]), toLowerCase(searchTerm))

MeetsExact(t) ==
    /\ filters.pair = << >> \/ t.pair = filters.pair
    /\ filters.timeframe = "" \/ t.timeframe = filters.timeframe
    /\ filters.type = << >> \/ t.type = filters.type

MeetsDates(t) ==
    /\ filters.dateFrom = Null \/ getTime(t.entry_date) >= getTime(filters.dateFrom[1])
    /\ filters.dateTo = Null \/ getTime(t.entry_date) <= getTime(filters.dateTo[1])

MeetsResult(t) ==
    /\ filters.profitOnly => (t.profit_loss # Null /\ t.profit_loss[1] > 0)
    /\ filters.lossOnly => (t.profit_loss # Null /\ t.profit_loss[1] < 0)

MeetsAll(t) == MeetsSearch(t) /\ MeetsExact(t) /\ MeetsDates(t) /\ MeetsResult(t)

ActiveCriteria ==
    Cardinality({ f \in { "pair", "type", "dateFrom", "dateTo" } : filters[f] # << >> })
    + (IF filters.timeframe # "" THEN 1 ELSE 0)
    + (IF searchTerm # << >> THEN 1 ELSE 0)
    + (IF filters.profitOnly \/ filters.lossOnly THEN 1 ELSE 0)

\* C1: the filtered list holds a trade of the list if and only if the trade
\* meets every active criterion, and it holds nothing else.
C1_FilterIsConjunction ==
    LET kept == Range(filteredTrades)
    IN  /\ kept \subseteq Range(trades)
        /\ \A i \in 1..Len(trades) : (trades[i] \in kept) <=> MeetsAll(trades[i])

\* three criteria are active at once, one trade is retained, another is not
C1_Witness ==
    /\ ActiveCriteria >= 3
    /\ LET kept == filteredTrades
       IN  kept # << >> /\ Len(kept) < Len(trades)

NoCriteria == searchTerm = << >> /\ filters = EmptyFilters

\* C2: with empty criteria the filter returns a non-empty list as it is:
\* the same trades in the same order.
C2_EmptyCriteriaIdentity ==
    (trades # << >> /\ NoCriteria) => filteredTrades = trades

\* a list of two or more trades, loaded, shown with every criterion empty
C2_Witness ==
    /\ loading = FALSE
    /\ Len(trades) >= 2
    /\ NoCriteria
    /\ showFilters

\* C3: with profitOnly every retained trade has a profit_loss above 0; a
\* trade with profit_loss null or 0 is not retained.
C3_ProfitOnlySound ==
    filters.profitOnly =>
        \A t \in Range(filteredTrades) : t.profit_loss # Null /\ t.profit_loss[1] > 0

\* profitOnly drops a trade with profit_loss null and one with 0, keeps one
C3_Witness ==
    /\ filters.profitOnly
    /\ filteredTrades # << >>
    /\ \E i \in 1..Len(trades) : trades[i].profit_loss = Null
    /\ \E i \in 1..Len(trades) : trades[i].profit_loss = Some(0)

\* C9: profitOnly and lossOnly are never both true, whatever checkbox
\* changes and resets happened.
C9_FlagsExclusive == ~ (filters.profitOnly /\ filters.lossOnly)

\* Loss Only is checked and has an effect on the shown list
C9_Witness ==
    /\ filters.lossOnly
    /\ ~ filters.profitOnly
    /\ LET kept == filteredTrades
       IN  kept # << >> /\ Len(kept) < Len(trades)

\* l and m hold the same trades, each as often
SameTrades(l, m) ==
    /\ Len(l) = Len(m)
    /\ \A t \in Range(l) \cup Range(m) :
          Cardinality({ i \in 1..Len(l) : l[i] = t })
            = Cardinality({ i \in 1..Len(m) : m[i] = t })

\* C30: resetFilters sets every filter field and the search term back to
\* empty or false and leaves the trade list, the sort spec and the selected
\* trade as they were; with all of them empty the displayed list contains
\* every loaded trade (checked under SpecReset).
C30_ResetShowsEveryTrade ==
    /\ [][resetFilters =>
            /\ filters' = EmptyFilters
            /\ searchTerm' = << >>
            /\ UNCHANGED <<trades, sortConfig, selectedTrade>>]_vars
    /\ []((filters = EmptyFilters /\ searchTerm = << >>) =>
            /\ filteredTrades = trades
            /\ \A e \in Engines : SameTrades(sortedTrades(e), trades))

\* the clear button is shown while a search term and Profit Only hide some
\* trade, a sort spec is set and a trade is selected: resetFilters acts here
C30_Witness ==
    /\ someFilterActive
    /\ searchTerm # << >>
    /\ sortConfig # Null
    /\ selectedTrade # Null
    /\ Len(filteredTrades) < Len(trades)

(***************************************************************************)
(* Properties of the sort (checked under SpecSort).                        *)
(***************************************************************************)
Reverse(l) == [i \in 1..Len(l) |-> l[Len(l) + 1 - i]]

HasValue(t) == fieldOf(t, sortConfig[1].key) # Null

\* the trades of l that have a value for the active sort key, in l's order
Valued(l) == SelectSeq(l, HasValue)

ValuesOf(l) == [i \in 1..Len(l) |-> fieldOf(l[i], sortConfig[1].key)]

NullsLastIn(l) ==
    \A i, j \in 1..Len(l) : (i < j /\ ~ HasValue(l[i])) => ~ HasValue(l[j])

PositionIn(l, t) == CHOOSE i \in 1..Len(l) : l[i] = t

\* C4: with an active sort spec every trade without a value for the sort
\* key comes after every trade with one, ascending and descending.
C4_NullsLast ==
    sortConfig # Null => \A e \in Engines : NullsLastIn(sortedTrades(e))

\* descending on a nullable column, the input starts with a null-valued
\* trade and holds a valued one after it
C4_Witness ==
    /\ sortConfig # Null
    /\ sortConfig[1].direction = "desc"
    /\ sortConfig[1].key \in NullableKeys
    /\ LET input == filteredTrades
       IN  /\ Len(input) >= 2
           /\ ~ HasValue(input[1])
           /\ \E j \in 2..Len(input) : HasValue(input[j])

\* the sort spec after the active key is selected once more
Toggled(config) ==
    [key |-> config.key,
     direction |-> IF config.direction = "asc" THEN "desc" ELSE "asc"]

\* C5 as stated: sorting with the direction toggled gives exactly the
\* reversed order of the valued trades, and the null-valued trades are
\* last in both directions.
C5_ExactReverse ==
    sortConfig # Null =>
        \A e \in Engines :
            LET one == sortedTrades(e)
                other == sortedCopy(e, Toggled(sortConfig[1]), filteredTrades)
            IN  /\ Valued(other) = Reverse(Valued(one))
                /\ NullsLastIn(one)
                /\ NullsLastIn(other)

\* C5 amended: sorting with the direction toggled gives exactly the
\* reversed sequence of sort-key values of the valued trades (so the trades
\* themselves are reversed when their values are pairwise different), and
\* the null-valued trades are last in both directions.
C5_ValuesReversed ==
    sortConfig # Null =>
        \A e \in Engines :
            LET one == sortedTrades(e)
                other == sortedCopy(e, Toggled(sortConfig[1]), filteredTrades)
                values == ValuesOf(Valued(one))
            IN  /\ ValuesOf(Valued(other)) = Reverse(values)
                /\ (Cardinality(Range(values)) = Len(values))
                      => Valued(other) = Reverse(Valued(one))
                /\ NullsLastIn(one)
                /\ NullsLastIn(other)

\* descending after a toggle, three trades shown: two valued ones with
\* different values and a null-valued one
C5_Witness ==
    /\ sortConfig # Null
    /\ sortConfig[1].direction = "desc"
    /\ LET input == filteredTrades
       IN  /\ Len(input) = 3
           /\ Len(Valued(input)) = 2
           /\ Cardinality(Range(ValuesOf(Valued(input)))) = 2

\* C6: two trades with equal values for the sort key keep their relative
\* order of the filtered list in the sorted list, in both directions.
C6_Stable ==
    sortConfig # Null =>
        \A e \in Engines :
            LET input == filteredTrades
                output == sortedTrades(e)
            IN  \A i, j \in 1..Len(input) :
                    ( /\ i < j
                      /\ fieldOf(input[i], sortConfig[1].key)
                           = fieldOf(input[j], sortConfig[1].key) )
                    => PositionIn(output, input[i]) < PositionIn(output, input[j])

\* C7: without a sort spec the sorted list is the filtered list: the same
\* trades in the same order.
C7_NoSortSpecIdentity ==
    sortConfig = Null => \A e \in Engines : sortedTrades(e) = filteredTrades

\* no sort spec, a result filter active, two or more trades shown
C7_Witness ==
    /\ sortConfig = Null
    /\ loading = FALSE
    /\ filters.profitOnly \/ filters.lossOnly
    /\ Len(filteredTrades) >= 2

\* C8: there is at most one sort spec; selecting the active key flips its
\* direction, selecting another key (or a first key) sets ascending.
C8_ToggleRule ==
    [][sortConfig' # sortConfig =>
         /\ sortConfig' \in { Some([key |-> k, direction |-> d]) :
                                 k \in SortKeys, d \in { "asc", "desc" } }
         /\ IF sortConfig # Null /\ sortConfig'[1].key = sortConfig[1].key
            THEN sortConfig'[1].direction
                   = (IF sortConfig[1].direction = "asc" THEN "desc" ELSE "asc")
            ELSE sortConfig'[1].direction = "asc"]_vars

\* a key was selected twice: it is active with direction descending
C8_Witness ==
    /\ sortConfig # Null
    /\ sortConfig[1].key = "profit_loss"
    /\ sortConfig[1].direction = "desc"

\* two characters that are the same letter in either case, or equal
SameIgnoringCase(a, b) ==
    \/ a = b
    \/ IsIn(UpperCase, a) /\ b = LowerCase[IndexOf(UpperCase, a)]
    \/ IsIn(UpperCase, b) /\ a = LowerCase[IndexOf(UpperCase, b)]

\* the term occurs in the text when both are lower-cased
FoundIn(text, term) ==
    \E k \in 0..(Len(text) - Len(term)) :
        \A i \in 1..Len(term) : SameIgnoringCase(text[k + i], term[i])

TextMatch(t) ==
    \/ FoundIn(t.pair, searchTerm)
    \/ t.notes # Null /\ FoundIn(t.notes[1], searchTerm)

\* C20: with a search term a trade passes the text criterion if and only if
\* the lower-cased term occurs in its lower-cased pair or notes; absent
\* notes are no match and no failure, so such a trade passes by its pair
\* alone. Stated where no other criterion is set, so that the filtered list
\* is the list of the trades that pass the text criterion.
C20_SearchCriterion ==
    (searchTerm # << >> /\ filters = EmptyFilters) =>
        /\ \A i \in 1..Len(trades) : passesSearch(trades[i]) <=> TextMatch(trades[i])
        /\ Range(filteredTrades) = { t \in Range(trades) : TextMatch(t) }

\* the term 'eUr' over three trades: one kept by its pair with notes absent,
\* one kept by its notes alone, one with absent notes dropped
C20_Witness ==
    /\ searchTerm = <<"e", "U", "r">>
    /\ filters = EmptyFilters
    /\ Len(trades) = 3
    /\ Len(filteredTrades) = 2
    /\ \E t \in Range(filteredTrades) : t.notes = Null /\ FoundIn(t.pair, searchTerm)
    /\ \E t \in Range(filteredTrades) : ~ FoundIn(t.pair, searchTerm)
    /\ \E t \in Range(trades) : t.notes = Null /\ t \notin Range(filteredTrades)

\* the instant of a date-only bound: the start of its day
StartOfDay(d) == At(d.month, d.day, 0)

\* the timestamp s is strictly before the timestamp t
Earlier(s, t) ==
    \/ s.month < t.month
    \/ s.month = t.month /\ s.day < t.day
    \/ s.month = t.month /\ s.day = t.day /\ s.hour < t.hour

WithinDates(t) ==
    /\ filters.dateFrom # Null => ~ Earlier(t.entry_date, StartOfDay(filters.dateFrom[1]))
    /\ filters.dateTo # Null => ~ Earlier(StartOfDay(filters.dateTo[1]), t.entry_date)

OnlyDatesSet ==
    /\ searchTerm = << >>
    /\ filters.dateFrom # Null \/ filters.dateTo # Null
    /\ [filters EXCEPT !.dateFrom = Null, !.dateTo = Null] = EmptyFilters

\* C21: the date bounds are inclusive and compare full timestamps: a trade
\* is retained when its entry_date is the instant of dateFrom or of dateTo,
\* excluded when it is strictly before dateFrom or strictly after dateTo,
\* be it later on the day of dateTo.
C21_DateBoundsInclusive ==
    OnlyDatesSet =>
        /\ \A i \in 1..Len(trades) :
              (passesDateFrom(trades[i]) /\ passesDateTo(trades[i]))
              <=> WithinDates(trades[i])
        /\ Range(filteredTrades) = { t \in Range(trades) : WithinDates(t) }

\* both bounds on the same day: the trade at the instant of the bounds is
\* the one retained, one later that day and one on an earlier day are not
C21_Witness ==
    /\ OnlyDatesSet
    /\ filters.dateFrom = Some(OnDay(5, 15))
    /\ filters.dateTo = Some(OnDay(5, 15))
    /\ Len(trades) = 3
    /\ Len(filteredTrades) = 1
    /\ filteredTrades[1].entry_date = At(5, 15, 0)
    /\ \E t \in Range(trades) : t.entry_date = At(5, 15, 9)
    /\ \E t \in Range(trades) : Earlier(t.entry_date, At(5, 15, 0))

(***************************************************************************)
(* Properties of the aggregates (checked under SpecAnalytics).             *)
(***************************************************************************)
\* C10: over an empty list the totals are 0 (numbers, not NaN), the two
\* breakdowns and the cumulative series are empty and the five histogram
\* counts are 0.
C10_EmptyAggregates ==
    rangeTrades = << >> =>
        /\ totalProfitLoss = 0
        /\ winRate = [n |-> 0, d |-> 1]
        /\ avgRiskReward = [n |-> 0, d |-> 1]
        /\ pnlByPair = << >>
        /\ pnlByTimeframe = << >>
        /\ cumulativePnl = << >>
        /\ riskRewardRanges = <<0, 0, 0, 0, 0>>

\* trades are loaded and the selected time range leaves none of them
C10_Witness ==
    /\ loading = FALSE
    /\ trades # << >>
    /\ timeRange # "all"
    /\ rangeTrades = << >>

\* the number of trades of a list that are won: profit_loss present and > 0
Wins(l) ==
    Cardinality({ i \in 1..Len(l) : l[i].profit_loss # Null /\ l[i].profit_loss[1] > 0 })

\* the fraction f is the number wins / total * 100
IsWinPercentage(f, wins, total) ==
    IF total = 0 THEN f = [n |-> 0, d |-> 1]
    ELSE f.d > 0 /\ f.n * total = wins * 100 * f.d

\* C11: winRate is (trades with profit_loss > 0) / (trades) * 100, a null
\* profit_loss not being a win, and 0 over an empty list; on Analytics over
\* the trades of the time range, on the Dashboard over all trades.
C11_WinRate ==
    /\ IsWinPercentage(winRate, Wins(rangeTrades), Len(rangeTrades))
    /\ IsWinPercentage(dashboardWinRate, Wins(trades), Len(trades))

\* three trades are shown: one open (profit_loss null), one break-even and
\* one won, so the win rate is 100 / 3
C11_Witness ==
    /\ loading = FALSE
    /\ Len(rangeTrades) = 3
    /\ \E i \in 1..3 : rangeTrades[i].profit_loss = Null
    /\ \E i \in 1..3 : rangeTrades[i].profit_loss = Some(0)
    /\ winRate = [n |-> 100, d |-> 3]

\* the sum of the profit_loss values that are present
RECURSIVE PresentProfit(_)
PresentProfit(l) ==
    IF l = << >> THEN 0
    ELSE (IF Head(l).profit_loss = Null THEN 0 ELSE Head(l).profit_loss[1])
         + PresentProfit(Tail(l))

\* C12: totalProfitLoss is the sum of profit_loss over all trades, a null
\* profit_loss adding 0; on Analytics over the trades of the time range, on
\* the Dashboard over all trades.
C12_TotalProfitLoss ==
    /\ totalProfitLoss = PresentProfit(rangeTrades)
    /\ dashboardTotalProfitLoss = PresentProfit(trades)

\* an open trade, a lost one and a won one: 0 - 7000 + 3000
C12_Witness ==
    /\ loading = FALSE
    /\ Len(rangeTrades) = 3
    /\ \E i \in 1..3 : rangeTrades[i].profit_loss = Null
    /\ \E i \in 1..3 : rangeTrades[i].profit_loss = Some(-7000)
    /\ totalProfitLoss = -4000

\* l is the list given ordered by entry_date ascending, trades of the same
\* entry_date in the order they were given
IsChronological(l, given) ==
    /\ Len(l) = Len(given)
    /\ Range(l) = Range(given)
    /\ \A i, j \in 1..Len(l) :
          i < j =>
            \/ getTime(l[i].entry_date) < getTime(l[j].entry_date)
            \/ /\ getTime(l[i].entry_date) = getTime(l[j].entry_date)
               /\ PositionIn(given, l[i]) < PositionIn(given, l[j])

\* C13: the cumulative P/L series of Analytics has one element per trade,
\* and element i is the sum of profit_loss (null as 0) of the first i trades
\* in the order of entry_date ascending, whatever the order they were given.
C13_CumulativeSeries ==
    LET shown == rangeTrades
        ordered == chronologicalTrades
        series == cumulativePnl
    IN  /\ IsChronological(ordered, shown)
        /\ Len(series) = Len(shown)
        /\ \A i \in 1..Len(series) :
              series[i] = PresentProfit(SubSeq(ordered, 1, i))

\* three trades given latest first, one of them open: the series follows the
\* dates, 0 (open), 3000, 3000 - 7000
C13_Witness ==
    /\ loading = FALSE
    /\ Len(rangeTrades) = 3
    /\ getTime(rangeTrades[1].entry_date) > getTime(rangeTrades[2].entry_date)
    /\ getTime(rangeTrades[2].entry_date) > getTime(rangeTrades[3].entry_date)
    /\ cumulativePnl = <<0, 3000, -4000>>

\* the ranges of the histogram by their edges, the lower one included and
\* the upper one not; ratios in hundredths
InRange(b, rr) ==
    CASE b = 1 -> rr < 100
      [] b = 2 -> 100 <= rr /\ rr < 150
      [] b = 3 -> 150 <= rr /\ rr < 200
      [] b = 4 -> 200 <= rr /\ rr < 300
      [] b = 5 -> 300 <= rr

RatiosOf(l) == [i \in 1..Len(l) |-> l[i].risk_reward_ratio]

\* C14: every trade is counted in exactly one range of the histogram, the
\* one whose lower edge its ratio reaches and whose upper edge it is below:
\* exactly 1 in '1 - 1.5', 1.5 in '1.5 - 2', 2 in '2 - 3', 3 in '> 3'.
C14_RangesLowerInclusive ==
    LET shown == rangeTrades
        counts == riskRewardRanges
    IN  /\ SumSeq(counts) = Len(shown)
        /\ \A b \in 1..5 :
              counts[b] =
                Cardinality({ i \in 1..Len(shown) :
                                InRange(b, shown[i].risk_reward_ratio) })

\* the four trades whose ratios are the edges 1, 1.5, 2 and 3
C14_Witness ==
    /\ loading = FALSE
    /\ Range(RatiosOf(rangeTrades)) = { 100, 150, 200, 300 }
    /\ riskRewardRanges = <<0, 1, 1, 1, 1>>

\* the ratios 0.5, 1.5, 1.8, 2.9 and 4.0, in this order
SpecExampleRatios == RatiosOf(rangeTrades) = <<50, 150, 180, 290, 400>>

\* C15 as stated: the ratios 0.5, 1.5, 1.8, 2.9, 4.0 give the counts
\* 1, 1, 1, 1, 1, the ratio 1.5 being counted in '1 - 1.5'.
C15_LowerRangeWinsTies ==
    SpecExampleRatios => riskRewardRanges = <<1, 1, 1, 1, 1>>

\* C15 amended: the ratios 0.5, 1.5, 1.8, 2.9, 4.0 give the counts
\* 1, 0, 2, 1, 1, the ratio 1.5 being counted in '1.5 - 2' with 1.8.
C15_EdgeCountedAbove ==
    SpecExampleRatios => riskRewardRanges = <<1, 0, 2, 1, 1>>

\* the five trades of the example are shown
C15_Witness ==
    /\ loading = FALSE
    /\ SpecExampleRatios
    /\ riskRewardRanges[3] = 2

(***************************************************************************)
(* Properties of the breakdowns (checked under SpecBreakdowns).             *)
(***************************************************************************)
\* the trades of a list whose field has the value
TradesWith(l, field, value) ==
    LET has(t) == t[field] = value IN SelectSeq(l, has)

\* C22: the per-pair breakdown has exactly one entry per pair that occurs in
\* the trades; its pnl is the sum of profit_loss (null as 0) of the trades of
\* the pair and its count is their number.
C22_PerPairBreakdown ==
    LET shown == rangeTrades
        entries == pnlByPair
        pairs == { shown[i].pair : i \in 1..Len(shown) }
    IN  /\ Len(entries) = Cardinality(pairs)
        /\ { entries[i].pair : i \in 1..Len(entries) } = pairs
        /\ \A i \in 1..Len(entries) :
              LET group == TradesWith(shown, "pair", entries[i].pair)
              IN  /\ entries[i].pnl = PresentProfit(group)
                  /\ entries[i].count = Len(group)

\* two pairs over four trades, a pair with two trades or more, one open
C22_Witness ==
    /\ loading = FALSE
    /\ Len(rangeTrades) = 4
    /\ Len(pnlByPair) = 2
    /\ \E i \in 1..2 : pnlByPair[i].count >= 2
    /\ \E i \in 1..4 : rangeTrades[i].profit_loss = Null

\* C23: the per-timeframe breakdown has exactly one entry per timeframe that
\* occurs in the trades; its winRate is (trades of the group with
\* profit_loss > 0) / (trades of the group) * 100, a division that is always
\* defined as no group is empty.
C23_PerTimeframeWinRate ==
    LET shown == rangeTrades
        entries == pnlByTimeframe
        timeframes == { shown[i].timeframe : i \in 1..Len(shown) }
    IN  /\ Len(entries) = Cardinality(timeframes)
        /\ { entries[i].timeframe : i \in 1..Len(entries) } = timeframes
        /\ \A i \in 1..Len(entries) :
              LET group == TradesWith(shown, "timeframe", entries[i].timeframe)
              IN  /\ Len(group) > 0
                  /\ entries[i].winRate.d > 0
                  /\ IsWinPercentage(entries[i].winRate, Wins(group), Len(group))

\* three timeframes are shown, with win rates 100, 50 and 0
C23_Witness ==
    /\ loading = FALSE
    /\ Len(pnlByTimeframe) = 3
    /\ { pnlByTimeframe[i].winRate : i \in 1..3 }
         = { [n |-> 100, d |-> 1], [n |-> 50, d |-> 1], [n |-> 0, d |-> 1] }

\* C29: the five counts of the histogram sum to the number of trades, the
\* counts of the per-pair breakdown sum to it too, and the pnl values of the
\* per-pair breakdown sum to totalProfitLoss.
C29_BreakdownsAddUp ==
    LET shown == rangeTrades
        entries == pnlByPair
    IN  /\ SumSeq(riskRewardRanges) = Len(shown)
        /\ SumSeq([i \in 1..Len(entries) |-> entries[i].count]) = Len(shown)
        /\ SumSeq([i \in 1..Len(entries) |-> entries[i].pnl]) = totalProfitLoss

\* five trades of two pairs, with gains and losses, in three ranges or more
C29_Witness ==
    /\ loading = FALSE
    /\ Len(rangeTrades) = 5
    /\ Len(pnlByPair) = 2
    /\ \E i \in 1..2 : pnlByPair[i].pnl < 0
    /\ \E i \in 1..2 : pnlByPair[i].pnl > 0
    /\ Cardinality({ b \in 1..5 : riskRewardRanges[b] > 0 }) >= 3

(***************************************************************************)
(* Properties of the Dashboard (checked under SpecDashboard).               *)
(***************************************************************************)
\* C25: the cumulative P/L series of the Dashboard is the running sum over
\* the trades ordered by entry_date ascending, in whatever order the store
\* supplied them.
C25_DashboardSeriesChronological ==
    LET ordered == chronoSort(trades, << >>)
        series == dashboardCumulativePnl
    IN  /\ IsChronological(ordered, trades)
        /\ Len(series) = Len(trades)
        /\ \A i \in 1..Len(series) :
              series[i] = PresentProfit(SubSeq(ordered, 1, i))

(***************************************************************************)
(* Properties of the renders (checked under SpecRender).                   *)
(***************************************************************************)
\* C24: the filter, the sort and the chronological sort leave their input
\* as it was: after a render the trade list and the filtered list hold the
\* same elements in the same order as before the sort, and the sort spec is
\* unchanged.
C24_RenderLeavesInputs ==
    [][/\ trades' = trades
       /\ sortConfig' = sortConfig
       /\ rendered'.page = "TradeHistory" => rendered'.filtered = filteredTrades
       /\ rendered'.page = "Analytics" => rendered'.filtered = rangeTrades]_vars

\* a render of Analytics over every trade put the trades in another order,
\* and the trade list is as it was loaded
C24_Witness ==
    /\ rendered.page = "Analytics"
    /\ timeRange = "all"
    /\ rendered.filtered = trades
    /\ rendered.sorted # trades

(***************************************************************************)
(* Properties of the trade form (checked under SpecJournal).               *)
(***************************************************************************)
\* risk and reward of a trade by its type, from prices that are present
RiskFor(type, entry, stop) == IF type = Buy THEN entry - stop ELSE stop - entry

RewardFor(type, entry, target) == IF type = Buy THEN target - entry ELSE entry - target

\* the ratio of the data model: 0 when the risk is not positive, else the
\* quotient reward / risk
RatioFor(type, entry, stop, target) ==
    IF RiskFor(type, entry, stop) <= 0 THEN Frac(0, 1)
    ELSE Frac(RewardFor(type, entry, target), RiskFor(type, entry, stop))

\* C16: with the three prices entered, calculateRiskReward gives 0 when the
\* risk (Buy: entry - stop, Sell: stop - entry) is not positive, and the
\* quotient reward / risk (Buy: target - entry, Sell: entry - target)
\* otherwise.
C16_RatioIsQuotient ==
    (form.entry_price # Null /\ form.stop_loss # Null /\ form.take_profit # Null)
    => parseFloat(riskRewardShown)
         = RatioFor(form.type, form.entry_price[1], form.stop_loss[1],
                    form.take_profit[1])

\* C17: the risk_reward_ratio of an inserted row is the unrounded quotient
\* reward / risk of its prices.
C17_PersistsUnrounded ==
    inserted # Null =>
        LET row == inserted[1]
        IN  RiskFor(row.type, row.entry_price[1], row.stop_loss[1]) > 0
            => row.risk_reward_ratio
                 = Frac(RewardFor(row.type, row.entry_price[1], row.take_profit[1]),
                        RiskFor(row.type, row.entry_price[1], row.stop_loss[1]))

\* C18: the risk_reward_ratio of an inserted row is 0 or more.
C18_InsertedRatioNotNegative ==
    inserted # Null => inserted[1].risk_reward_ratio.n >= 0

\* the step in which the upload returns an error
UploadFails ==
    /\ submission # Null
    /\ submission[1].at = "upload"
    /\ submission' = Null

\* C26: when the upload of the screenshot returns an error no row is
\* inserted and the form is not reset; a row is inserted only by a run whose
\* upload succeeded or that had no screenshot attached.
C26_UploadErrorInsertsNothing ==
    [][/\ UploadFails =>
            (inserted' = inserted /\ form' = form /\ previewImage' = previewImage)
       /\ inserted' # inserted =>
            /\ submission # Null
            /\ submission[1].at = "insert"
            /\ submission[1].data.screenshot => submission[1].screenshot_url
            /\ inserted'[1].screenshot_url = submission[1].data.screenshot]_vars

\* a run with a screenshot ended on the upload error: nothing is inserted,
\* the fields and the screenshot are still in the form
C26_Witness ==
    /\ reported = "uploadError"
    /\ ~ isSubmitting
    /\ inserted = Null
    /\ form.screenshot
    /\ previewImage
    /\ formAccepted(form)

\* C27: every run of onSubmit sets isSubmitting at its start, so that it is
\* true exactly while a run is in flight, and every run sets it back to
\* false in the end, whether the upload fails, the insert fails or the trade
\* is saved.
C27_IsSubmittingCleared ==
    /\ [](isSubmitting <=> submission # Null)
    /\ isSubmitting ~> ~ isSubmitting

\* a run ended on the error of the insert and isSubmitting is false again
C27_Witness ==
    /\ reported = "error"
    /\ submission = Null
    /\ ~ isSubmitting

(***************************************************************************)
(* Properties of the settings (checked under SpecSettings).                *)
(***************************************************************************)
\* 0.1 <= x <= 10
WithinRiskBounds(x) == x.d > 0 /\ 10 * x.n >= x.d /\ x.n <= 10 * x.d

\* the inputs that spell a number from 0.1 to 10: 0.1, 10, 5 and 2.5
TextsWithinBounds ==
    { <<"0", ".", "1">>, <<"1", "0">>, <<"5">>, <<"2", ".", "5">> }

\* C19: the held riskPercentage is within [0.1, 10] after any sequence of
\* input changes, and so is the value a saveSettings run carries; an input
\* that is no number or is outside [0.1, 10] leaves riskPercentage as it was.
C19_RiskPercentageBounded ==
    /\ [](/\ WithinRiskBounds(settings.riskPercentage)
          /\ saving # Null => WithinRiskBounds(saving[1].risk_percentage))
    /\ [][\A text \in RiskInputs \ TextsWithinBounds :
             handleRiskPercentageChange(text) => UNCHANGED settings]_vars

\* the input 10 was taken and a saveSettings run carries it
C19_Witness ==
    /\ settings.riskPercentage = [n |-> 10, d |-> 1]
    /\ saving # Null
    /\ saving[1].risk_percentage = [n |-> 10, d |-> 1]

\* the places of the user's rows in the settings table
rowsOfUser(rows) == { i \in DOMAIN rows : rows[i].user_id = userId }

\* C28: a saveSettings run updates the row of the user when there is one
\* and inserts a row only when there is none, so that the table holds at
\* most one row of the user after any sequence of runs; a lookup that fails
\* sends neither the update nor the insert.
C28_OneSettingsRow ==
    /\ [](Cardinality(rowsOfUser(settingsRows)) <= 1)
    /\ [](saving # Null /\ saving[1].at = "insert" =>
            rowsOfUser(settingsRows) = { })
    /\ [](saving # Null /\ saving[1].at = "update" =>
            \E i \in rowsOfUser(settingsRows) : settingsRows[i].id = saving[1].id)
    /\ [][/\ (saving # Null /\ saving[1].at = "select" /\ saving' = Null) =>
                (settingsRows' = settingsRows /\ ~ settingsLoading')
          /\ Len(settingsRows') > Len(settingsRows) =>
                (saving # Null /\ saving[1].at = "insert")
          /\ (settingsRows' # settingsRows /\ Len(settingsRows') = Len(settingsRows)) =>
                (saving # Null /\ saving[1].at = "update")]_vars

\* a run inserted the row of the user next to the row of another user, and
\* a later run found it and sent the update
C28_Witness ==
    /\ Len(settingsRows) = 2
    /\ settingsRows[2].user_id = userId
    /\ saving # Null
    /\ saving[1].at = "update"
    /\ saving[1].id = settingsRows[2].id

=============================================================================
